---- MODULE Spec2Model ----
(***************************************************************************)
(* Model of the backport tool (assets/backport): the Backport engine, the  *)
(* cherry-pick step with its sibling commit, the listing of a pull         *)
(* request's commits, the tool's main loop over the target branches, and   *)
(* the repository host they talk to.                                       *)
(*                                                                         *)
(* The host is a commit store (objects: sha -> commit) and a reference     *)
(* table (refs: name -> sha). Every gateway call is one action; it either  *)
(* succeeds or fails (transport failure, or the host refusing it).         *)
(***************************************************************************)
EXTENDS Integers, Sequences, FiniteSets, TLC

VARIABLES
    objects,    \* host: the commits, a sequence indexed by sha (1..Len)
    refs,       \* host: reference name -> sha, defined on the existing references
    req,        \* the Backport requests: base branch, source label, commits
    frames,     \* per invocation of Backport: its position and its locals
    calls,      \* per invocation: the gateway calls issued so far, in order
    pull,       \* host: the pull request to backport and the pages of its commit list
    lister,     \* getPullRequestCommits: its position and its locals
    tool,       \* main: its position and its locals
    pulls       \* host: the pull requests opened, in order

vars == <<objects, refs, req, frames, calls, pull, lister, tool, pulls>>

\* ------------------------------------------------------------------ bounds

\* Longest commit list handed to one Backport invocation.
MaxCommits == 2
\* Longest commit list when two invocations run concurrently.
MaxConcCommits == 1
\* Largest number of commits of a pull request.
MaxPullCommits == 5
\* Largest page size the host serves.
MaxPageSize == 3
\* Number of list calls that complete before the caller's deadline expires.
MaxListCalls == 5
\* Longest value of the flag naming the target branches, in characters.
MaxInputLen == 4
\* Largest number of commits of the pull request a run of the tool backports.
MaxMainCommits == 2

\* ------------------------------------------------------------------ data

Invocations == {1, 2}
Files == {"X", "Y"}
Contents == {0, 1}
Trees == [Files -> Contents]
Labels == {"feature-x", "feature-y"}

branchRefPrefix == "refs/heads/"
backportPRState == "closed"
masterBranchName == "master"

\* The branch names of the repository.
Targets == {"release/1.0", "release/2.0"}
PullNumbers == {7, 4242}

\* strings.TrimPrefix: s without the prefix when s starts with it, else s.
TrimPrefix(s, prefix) ==
    IF Len(s) >= Len(prefix) /\ SubSeq(s, 1, Len(prefix)) = prefix
    THEN SubSeq(s, Len(prefix) + 1, Len(s))
    ELSE s

\* fmt.Sprintf("%s%s", branchRefPrefix, branchName)
RefName(branchName) == branchRefPrefix \o branchName

\* fmt.Sprintf("auto-backport/%s/%s", baseBranchName, backportBranchName)
NewBranchName(baseBranchName, backportBranchName) ==
    "auto-backport/" \o baseBranchName \o "/" \o backportBranchName

\* The branch an invocation works on.
BranchOf(i) == NewBranchName(req[i].baseBranchName, req[i].backportBranchName)

\* A Backport that cherry-picks onto the base branch itself.
CherryPickOntoBase(i) == req[i].baseBranchName

\* Backport, line 85: the branch handed to cherryPickCommitsOnBranch.
CherryPickBranch(i) == BranchOf(i)

\* ------------------------------------------------------------------ host

\* The commits present before any invocation: the common root of master and the
\* release branch, the release branch's tip, the master commit the pull request
\* was cut from; the pull request's commits follow.
Seed == [root |-> 1, baseTip |-> 2, pullParent |-> 3]
RootSHA == Seed.root
BaseTipSHA == Seed.baseTip
PullParentSHA == Seed.pullParent

MsgOf(k) == "commit " \o ToString(k)

\* The tree t with the files of `changed` flipped.
Flip(t, changed) == [f \in Files |-> IF f \in changed THEN 1 - t[f] ELSE t[f]]

RECURSIVE PullTree(_, _, _)
\* The tree of the k-th commit of the pull request (k = 0: its parent).
PullTree(tP, changes, k) ==
    IF k = 0 THEN tP ELSE Flip(PullTree(tP, changes, k - 1), changes[k])

\* The commit store before any invocation: root, release tip, master commit,
\* then the n commits of the pull request; the commit at badPos (if any) has
\* badShape parents instead of one.
InitObjects(n, tA, tP, changes, badPos, badShape) ==
    [s \in 1..(3 + n) |->
        IF s = RootSHA THEN [message |-> "root", tree |-> [f \in Files |-> 0], parents |-> <<>>]
        ELSE IF s = BaseTipSHA THEN [message |-> "release", tree |-> tA, parents |-> <<RootSHA>>]
        ELSE IF s = PullParentSHA THEN [message |-> "master", tree |-> tP, parents |-> <<RootSHA>>]
        ELSE [message |-> MsgOf(s - 3),
              tree |-> PullTree(tP, changes, s - 3),
              parents |-> IF s - 3 # badPos THEN <<s - 1>>
                          ELSE IF badShape = 2 THEN <<s - 1, BaseTipSHA>>
                          ELSE <<>>]]

InitRefs ==
    (RefName("master") :> PullParentSHA) @@ (RefName("release/1.0") :> BaseTipSHA)

CommitExists(objs, sha) == sha \in 1..Len(objs)
RefExists(rs, name) == name \in DOMAIN rs

RECURSIVE Ancestors(_, _)
\* The commits reachable from sha through parent links, sha included.
Ancestors(objs, sha) ==
    {sha} \cup UNION {Ancestors(objs, objs[sha].parents[j]) : j \in 1..Len(objs[sha].parents)}

\* The best common ancestors of two commits.
MergeBases(objs, a, b) ==
    LET common == Ancestors(objs, a) \cap Ancestors(objs, b)
    IN  {c \in common : \A d \in common \ {c} : c \notin Ancestors(objs, d)}

\* Three-way merge of trees: a file changed on one side only takes that side.
ThreeWayMerge(base, ours, theirs) ==
    [f \in Files |-> IF ours[f] = base[f] THEN theirs[f] ELSE ours[f]]

\* Both sides changed the same file differently.
Conflict(base, ours, theirs) ==
    \E f \in Files : ours[f] # base[f] /\ theirs[f] # base[f] /\ ours[f] # theirs[f]

\* ------------------------------------------------------------------ frames

NoCommit == [sha |-> 0, message |-> "", tree |-> <<>>, parents |-> <<>>]

IdleFrame ==
    [pc |-> "idle", err |-> "", ret |-> "",
     baseBranchSHA |-> 0, branchSHA |-> 0,
     headCommit |-> [sha |-> 0, tree |-> <<>>],
     i |-> 0, cherryCommit |-> NoCommit,
     siblingSHA |-> 0, mergeSHA |-> 0, mergeTree |-> <<>>,
     updatedSHA |-> 0, sha |-> 0,
     created |-> FALSE, failedAt |-> "", cleanup |-> "none", steps |-> <<>>]

StartFrame == [IdleFrame EXCEPT !.pc = "createBranchFrom.GetBranch"]

\* The commit object of sha as get-commit returns it.
Fetched(objs, sha) ==
    [sha |-> sha, message |-> objs[sha].message, tree |-> objs[sha].tree,
     parents |-> objs[sha].parents]

Log(i, op, arg, ok) ==
    [calls EXCEPT ![i] = Append(@, [op |-> op, arg |-> arg, ok |-> ok])]

\* ------------------------------------------------------------------ Backport

\* A Backport that goes on to cherry-pick although createBranchFrom failed.
BackportIgnoresCreateError(f, e) ==
    [f EXCEPT !.pc = "GetBranch"]

\* A Backport that deletes the branch when createBranchFrom failed.
BackportCleansUpCreateError(f, e) ==
    [f EXCEPT !.pc = "DeleteRef", !.err = e]

\* Backport, lines 78-81: createBranchFrom failed.
BackportCreateFailed(f, e) ==
    [f EXCEPT !.pc = "done", !.ret = "", !.err = e]

\* Backport, lines 82-85: the branch exists, go on to cherry-pick.
BackportCreated(f) ==
    [f EXCEPT !.pc = "GetBranch", !.created = TRUE]

\* cherryPickCommitsOnBranch, lines 133-135, 141-143, 147-149: a read failed;
\* the error is returned, and Backport returns "" with it (lines 86-88).
ReadFailed(f, at, e) ==
    [f EXCEPT !.pc = "done", !.ret = "", !.err = e, !.failedAt = at]

\* A step that starts over when its last update-ref fails.
StepFailedStartsOver(f, at, e) ==
    [f EXCEPT !.pc = IF at = "final-update-ref" THEN "sibling.CreateCommit" ELSE "DeleteRef",
              !.err = e, !.failedAt = at]

\* A failed step that issues its failed call again.
StepFailedRetry(f, at, e) ==
    [f EXCEPT !.err = e, !.failedAt = at]

\* A failed step that returns its error without deleting the branch.
StepFailedNoCleanup(f, at, e) ==
    [f EXCEPT !.pc = "done", !.ret = "", !.err = e, !.failedAt = at]

\* cherryPickCommitsOnBranch, lines 151-157: cherryPickCommit failed; the
\* deletion of the branch is deferred to the return, the error is returned.
StepFailed(f, at, e) ==
    [f EXCEPT !.pc = "DeleteRef", !.err = e, !.failedAt = at]

\* A cleanup whose failure replaces the step's error.
DeletedReportsFailure(f, ok) ==
    [f EXCEPT !.pc = "done", !.ret = "",
              !.err = IF ok THEN @ ELSE "delete-ref",
              !.cleanup = IF ok THEN "ok" ELSE "failed"]

\* cherryPickCommitsOnBranch, lines 152-156, and Backport, lines 86-88: the
\* deferred delete-ref has run, its result is dropped; Backport returns ""
\* and the step's error.
Deleted(f, ok) ==
    [f EXCEPT !.pc = "done", !.ret = "",
              !.cleanup = IF ok THEN "ok" ELSE "failed"]

\* A merge request whose head is the parent of the commit to apply.
MergeRequestOfParent(branchName, cherryCommit) ==
    [base |-> branchName, head |-> cherryCommit.parents[1]]

\* cherryPickCommit, line 181, and merge, lines 277-280: the merge request,
\* base the branch and head the commit to apply.
MergeRequest(branchName, cherryCommit) ==
    [base |-> branchName, head |-> cherryCommit.sha]

\* A loop that rejects an empty commit list and deletes the branch.
LoopHeadRejectsEmpty(f, n, name) ==
    IF n = 0 THEN [f EXCEPT !.pc = "DeleteRef", !.err = "commits is empty",
                            !.failedAt = "precondition"]
    ELSE IF f.i < n THEN [f EXCEPT !.pc = "GetCherryCommit"]
    ELSE [f EXCEPT !.pc = "done", !.ret = name]

\* cherryPickCommitsOnBranch, line 145, and Backport, lines 89-90: the loop
\* condition; past the last commit Backport returns the branch name.
LoopHead(f, n, name) ==
    IF f.i < n THEN [f EXCEPT !.pc = "GetCherryCommit"]
    ELSE [f EXCEPT !.pc = "done", !.ret = name]

\* A guard that lets a commit with several parents through.
SupportedWithParents(cherryCommit) == Len(cherryCommit.parents) >= 1

\* cherryPickCommit, line 166: the guard on the commit's shape.
Supported(cherryCommit) == Len(cherryCommit.parents) = 1

\* A sibling placed on top of the branch's head instead of beside the commit
\* to apply.
SiblingCommitOnHead(branchHeadCommit, cherryParent) ==
    [message |-> "field-not-required",
     tree |-> branchHeadCommit.tree,
     parents |-> <<branchHeadCommit.sha>>]

\* createSiblingCommit, lines 225-234: the commit it asks the host to create.
SiblingCommit(branchHeadCommit, cherryParent) ==
    [message |-> "field-not-required",
     tree |-> branchHeadCommit.tree,
     parents |-> <<cherryParent>>]

\* A step whose final commit sits on top of the merge commit.
FinalCommitOnMerge(f) ==
    [message |-> f.cherryCommit.message,
     tree |-> f.mergeTree,
     parents |-> <<f.mergeSHA>>]

\* A step whose final commit carries the sibling's placeholder message.
FinalCommitPlaceholderMessage(f) ==
    [message |-> "field-not-required",
     tree |-> f.mergeTree,
     parents |-> <<f.updatedSHA>>]

\* cherryPickCommit, lines 195-201: the commit it asks the host to create, from
\* the locals cherryCommit, mergeTree and updatedCommit.
FinalCommit(f) ==
    [message |-> f.cherryCommit.message,
     tree |-> f.mergeTree,
     parents |-> <<f.updatedSHA>>]

\* A loop that carries the new tip's identity with the old tip's tree.
ThreadTipKeepsTree(f, tree, sha) ==
    [f EXCEPT !.headCommit = [sha |-> sha, tree |-> f.headCommit.tree],
              !.i = @ + 1,
              !.steps = Append(@, [sibling |-> f.siblingSHA, merge |-> f.mergeSHA, final |-> sha])]

\* cherryPickCommitsOnBranch, lines 158-160: thread the new tip, next commit.
ThreadTip(f, tree, sha) ==
    [f EXCEPT !.headCommit = [sha |-> sha, tree |-> tree],
              !.i = @ + 1,
              !.steps = Append(@, [sibling |-> f.siblingSHA, merge |-> f.mergeSHA, final |-> sha])]

\* createBranchFrom, line 255: get-branch of the base branch.
createBranchFrom_GetBranch(i) ==
    /\ frames[i].pc = "createBranchFrom.GetBranch"
    /\ \E up \in BOOLEAN :
        LET name == RefName(req[i].baseBranchName)
            ok == up /\ RefExists(refs, name)
        IN  /\ calls' = Log(i, "get-branch", name, ok)
            /\ frames' = [frames EXCEPT ![i] =
                    IF ok THEN [@ EXCEPT !.pc = "createBranchFrom.CreateRef",
                                         !.baseBranchSHA = refs[name]]
                    ELSE BackportCreateFailed(@, "get-branch")]
    /\ UNCHANGED <<objects, refs, req, pull, lister, tool, pulls>>

\* createBranchFrom, lines 259-272: create-ref of the new branch; the host
\* refuses a name that exists.
createBranchFrom_CreateRef(i) ==
    /\ frames[i].pc = "createBranchFrom.CreateRef"
    /\ \E up \in BOOLEAN :
        LET name == RefName(BranchOf(i))
            ok == up /\ ~RefExists(refs, name) /\ CommitExists(objects, frames[i].baseBranchSHA)
        IN  /\ calls' = Log(i, "create-ref", name, ok)
            /\ refs' = IF ok THEN refs @@ (name :> frames[i].baseBranchSHA) ELSE refs
            /\ frames' = [frames EXCEPT ![i] =
                    IF ok THEN BackportCreated(@)
                    ELSE BackportCreateFailed(@, IF RefExists(refs, name)
                                                 THEN "reference already exists"
                                                 ELSE "create-ref")]
    /\ UNCHANGED <<objects, req, pull, lister, tool, pulls>>

\* cherryPickCommitsOnBranch, lines 132-135: get-branch of the new branch.
cherryPickCommitsOnBranch_GetBranch(i) ==
    /\ frames[i].pc = "GetBranch"
    /\ \E up \in BOOLEAN :
        LET name == RefName(CherryPickBranch(i))
            ok == up /\ RefExists(refs, name)
        IN  /\ calls' = Log(i, "get-branch", name, ok)
            /\ frames' = [frames EXCEPT ![i] =
                    IF ok THEN [@ EXCEPT !.pc = "GetHeadCommit", !.branchSHA = refs[name]]
                    ELSE ReadFailed(@, "get-branch", "get-branch")]
    /\ UNCHANGED <<objects, refs, req, pull, lister, tool, pulls>>

\* cherryPickCommitsOnBranch, lines 137-145: get-commit of the branch's HEAD,
\* then the first test of the loop condition.
cherryPickCommitsOnBranch_GetHeadCommit(i) ==
    /\ frames[i].pc = "GetHeadCommit"
    /\ \E up \in BOOLEAN :
        LET sha == frames[i].branchSHA
            ok == up /\ CommitExists(objects, sha)
        IN  /\ calls' = Log(i, "get-commit", sha, ok)
            /\ frames' = [frames EXCEPT ![i] =
                    IF ok THEN LoopHead([@ EXCEPT !.headCommit =
                                            [sha |-> sha, tree |-> objects[sha].tree]],
                                        Len(req[i].commits), BranchOf(i))
                    ELSE ReadFailed(@, "get-head-commit", "get-commit")]
    /\ UNCHANGED <<objects, refs, req, pull, lister, tool, pulls>>

\* cherryPickCommitsOnBranch, lines 146-150, and cherryPickCommit, lines
\* 166-169: get-commit of the commit to apply, then the guard of its step.
cherryPickCommitsOnBranch_GetCherryCommit(i) ==
    /\ frames[i].pc = "GetCherryCommit"
    /\ \E up \in BOOLEAN :
        LET sha == req[i].commits[frames[i].i + 1]
            ok == up /\ CommitExists(objects, sha)
        IN  /\ calls' = Log(i, "get-commit", sha, ok)
            /\ frames' = [frames EXCEPT ![i] =
                    IF ~ok THEN ReadFailed(@, "get-cherry-commit", "get-commit")
                    ELSE IF ~Supported(Fetched(objects, sha))
                    THEN StepFailed([@ EXCEPT !.cherryCommit = Fetched(objects, sha)],
                                    "guard", "merge commits are not supported")
                    ELSE [@ EXCEPT !.cherryCommit = Fetched(objects, sha),
                                   !.pc = "sibling.CreateCommit"]]
    /\ UNCHANGED <<objects, refs, req, pull, lister, tool, pulls>>

\* createSiblingCommit, lines 228-238: create-commit of the sibling.
createSiblingCommit_CreateCommit(i) ==
    /\ frames[i].pc = "sibling.CreateCommit"
    /\ \E up \in BOOLEAN :
        LET c == SiblingCommit(frames[i].headCommit, frames[i].cherryCommit.parents[1])
            ok == up /\ \A j \in 1..Len(c.parents) : CommitExists(objects, c.parents[j])
            sha == Len(objects) + 1
        IN  /\ calls' = Log(i, "create-commit", IF ok THEN sha ELSE 0, ok)
            /\ objects' = IF ok THEN Append(objects, c) ELSE objects
            /\ frames' = [frames EXCEPT ![i] =
                    IF ok THEN [@ EXCEPT !.pc = "sibling.UpdateRef", !.siblingSHA = sha]
                    ELSE StepFailed(@, "sibling-create-commit", "create-commit")]
    /\ UNCHANGED <<refs, req, pull, lister, tool, pulls>>

\* createSiblingCommit, lines 240-250: forced update-ref of the branch to the
\* sibling.
createSiblingCommit_UpdateRef(i) ==
    /\ frames[i].pc = "sibling.UpdateRef"
    /\ \E up \in BOOLEAN :
        LET name == RefName(CherryPickBranch(i))
            ok == up /\ RefExists(refs, name)
        IN  /\ calls' = Log(i, "update-ref", [ref |-> name, sha |-> frames[i].siblingSHA], ok)
            /\ refs' = IF ok THEN [refs EXCEPT ![name] = frames[i].siblingSHA] ELSE refs
            /\ frames' = [frames EXCEPT ![i] =
                    IF ok THEN [@ EXCEPT !.pc = "merge.Merge"]
                    ELSE StepFailed(@, "sibling-update-ref", "update-ref")]
    /\ UNCHANGED <<objects, req, pull, lister, tool, pulls>>

\* merge, lines 277-283: the host merges the commit to apply into the branch.
\* It creates a merge commit of the branch's tip and the head, whose tree is
\* the three-way merge over their merge base, and points the branch at it; it
\* refuses a conflict (409), and answers without a commit when the head is
\* already part of the branch (204).
merge_Merge(i) ==
    /\ frames[i].pc = "merge.Merge"
    /\ \E up \in BOOLEAN :
        LET request == MergeRequest(CherryPickBranch(i), frames[i].cherryCommit)
            name == RefName(request.base)
            head == request.head
            known == up /\ RefExists(refs, name) /\ CommitExists(objects, head)
            tip == refs[name]
            merged == known /\ head \in Ancestors(objects, tip)
            bases == IF known /\ ~merged THEN MergeBases(objects, tip, head) ELSE {}
            sha == Len(objects) + 1
        IN  \/ /\ merged
               /\ calls' = Log(i, "merge", request, TRUE)
               /\ frames' = [frames EXCEPT ![i] = [@ EXCEPT !.pc = "merge.GetCommit", !.mergeSHA = 0]]
               /\ UNCHANGED <<objects, refs>>
            \/ \E mb \in bases :
               /\ ~Conflict(objects[mb].tree, objects[tip].tree, objects[head].tree)
               /\ calls' = Log(i, "merge", request, TRUE)
               /\ objects' = Append(objects,
                      [message |-> "Merge",
                       tree |-> ThreeWayMerge(objects[mb].tree, objects[tip].tree, objects[head].tree),
                       parents |-> <<tip, head>>])
               /\ refs' = [refs EXCEPT ![name] = sha]
               /\ frames' = [frames EXCEPT ![i] = [@ EXCEPT !.pc = "merge.GetCommit", !.mergeSHA = sha]]
            \/ /\ \/ ~known
                  \/ ~merged /\ \A mb \in bases :
                        Conflict(objects[mb].tree, objects[tip].tree, objects[head].tree)
               /\ calls' = Log(i, "merge", request, FALSE)
               /\ frames' = [frames EXCEPT ![i] = StepFailed(@, "merge", "merge")]
               /\ UNCHANGED <<objects, refs>>
    /\ UNCHANGED <<req, pull, lister, tool, pulls>>

\* merge, lines 284-291, and cherryPickCommit, line 185: get-commit of the
\* merge commit, whose tree is kept.
merge_GetCommit(i) ==
    /\ frames[i].pc = "merge.GetCommit"
    /\ \E up \in BOOLEAN :
        LET sha == frames[i].mergeSHA
            ok == up /\ CommitExists(objects, sha)
        IN  /\ calls' = Log(i, "get-commit", sha, ok)
            /\ frames' = [frames EXCEPT ![i] =
                    IF ok THEN [@ EXCEPT !.pc = "GetUpdatedCommit", !.mergeTree = objects[sha].tree]
                    ELSE StepFailed(@, "merge-get-commit", "get-commit")]
    /\ UNCHANGED <<objects, refs, req, pull, lister, tool, pulls>>

\* cherryPickCommit, lines 187-193: get-commit of the tip the step started from.
cherryPickCommit_GetUpdatedCommit(i) ==
    /\ frames[i].pc = "GetUpdatedCommit"
    /\ \E up \in BOOLEAN :
        LET sha == frames[i].headCommit.sha
            ok == up /\ CommitExists(objects, sha)
        IN  /\ calls' = Log(i, "get-commit", sha, ok)
            /\ frames' = [frames EXCEPT ![i] =
                    IF ok THEN [@ EXCEPT !.pc = "CreateCommit", !.updatedSHA = sha]
                    ELSE StepFailed(@, "re-fetch", "get-commit")]
    /\ UNCHANGED <<objects, refs, req, pull, lister, tool, pulls>>

\* cherryPickCommit, lines 195-204: create-commit of the final commit.
cherryPickCommit_CreateCommit(i) ==
    /\ frames[i].pc = "CreateCommit"
    /\ \E up \in BOOLEAN :
        LET c == FinalCommit(frames[i])
            ok == up /\ \A j \in 1..Len(c.parents) : CommitExists(objects, c.parents[j])
            sha == Len(objects) + 1
        IN  /\ calls' = Log(i, "create-commit", IF ok THEN sha ELSE 0, ok)
            /\ objects' = IF ok THEN Append(objects, c) ELSE objects
            /\ frames' = [frames EXCEPT ![i] =
                    IF ok THEN [@ EXCEPT !.pc = "UpdateRef", !.sha = sha]
                    ELSE StepFailed(@, "final-create-commit", "create-commit")]
    /\ UNCHANGED <<refs, req, pull, lister, tool, pulls>>

\* cherryPickCommit, lines 208-219, and cherryPickCommitsOnBranch, lines
\* 158-160, 145: forced update-ref of the branch to the final commit; the new
\* tip is threaded into the next iteration.
cherryPickCommit_UpdateRef(i) ==
    /\ frames[i].pc = "UpdateRef"
    /\ \E up \in BOOLEAN :
        LET name == RefName(CherryPickBranch(i))
            ok == up /\ RefExists(refs, name)
        IN  /\ calls' = Log(i, "update-ref", [ref |-> name, sha |-> frames[i].sha], ok)
            /\ refs' = IF ok THEN [refs EXCEPT ![name] = frames[i].sha] ELSE refs
            /\ frames' = [frames EXCEPT ![i] =
                    IF ok THEN LoopHead(ThreadTip(@, frames[i].mergeTree, frames[i].sha),
                                        Len(req[i].commits), BranchOf(i))
                    ELSE StepFailed(@, "final-update-ref", "update-ref")]
    /\ UNCHANGED <<objects, req, pull, lister, tool, pulls>>

\* cherryPickCommitsOnBranch, lines 152-156, and Backport, lines 86-88: the
\* deferred delete-ref, whose outcome is dropped; Backport returns the error.
cherryPickCommitsOnBranch_DeleteRef(i) ==
    /\ frames[i].pc = "DeleteRef"
    /\ \E up \in BOOLEAN :
        LET name == RefName(CherryPickBranch(i))
            ok == up /\ RefExists(refs, name)
        IN  /\ calls' = Log(i, "delete-ref", name, ok)
            /\ refs' = IF ok THEN [r \in DOMAIN refs \ {name} |-> refs[r]] ELSE refs
            /\ frames' = [frames EXCEPT ![i] = Deleted(@, ok)]
    /\ UNCHANGED <<objects, req, pull, lister, tool, pulls>>

Backport(i) ==
    \/ createBranchFrom_GetBranch(i)
    \/ createBranchFrom_CreateRef(i)
    \/ cherryPickCommitsOnBranch_GetBranch(i)
    \/ cherryPickCommitsOnBranch_GetHeadCommit(i)
    \/ cherryPickCommitsOnBranch_GetCherryCommit(i)
    \/ createSiblingCommit_CreateCommit(i)
    \/ createSiblingCommit_UpdateRef(i)
    \/ merge_Merge(i)
    \/ merge_GetCommit(i)
    \/ cherryPickCommit_GetUpdatedCommit(i)
    \/ cherryPickCommit_CreateCommit(i)
    \/ cherryPickCommit_UpdateRef(i)
    \/ cherryPickCommitsOnBranch_DeleteRef(i)

\* ------------------------------------------------------------------ listing

perPage == 100

\* The caller's context, main line 44: the calls after MaxListCalls find the
\* deadline expired.
DeadlineExpired(ncalls) == ncalls >= MaxListCalls

\* getPullRequestCommits, lines 295-299: the locals before the loop.
StartLister ==
    [pc |-> "ListCommits", opts |-> [Page |-> 0, PerPage |-> perPage],
     commitSHAs |-> <<>>, err |-> "", requests |-> <<>>, ncalls |-> 0]

IdleLister == [StartLister EXCEPT !.pc = "idle"]

\* getPullRequestCommits, lines 301-304: the options sent with the list call,
\* a fresh zero-valued ListOptions.
ListRequest(opts) == [Page |-> 0, PerPage |-> 0]

\* The host's reading of a request: page 0 is the first page, per-page 0 is the
\* host's own page size.
HostPageNo(r) == IF r.Page = 0 THEN 1 ELSE r.Page
HostPageSize(p, r) == IF r.PerPage = 0 THEN p.pageSize ELSE r.PerPage

Min(a, b) == IF a < b THEN a ELSE b

\* The commits of page no, pages holding size commits each.
HostPage(p, no, size) ==
    SubSeq(p.commits, (no - 1) * size + 1, Min(no * size, Len(p.commits)))

\* The next page the host reports with page no: 0 when there is none.
HostNextPage(p, no, size) == IF no * size < Len(p.commits) THEN no + 1 ELSE 0

\* Number of pages: at least one, the last possibly empty.
NumPages(p, size) ==
    IF Len(p.commits) = 0 THEN 1 ELSE (Len(p.commits) + size - 1) \div size

\* getPullRequestCommits, lines 300-319: one iteration of the loop: the list
\* call, the page appended, and the exit when no next page is reported.
getPullRequestCommits_ListCommits ==
    /\ lister.pc = "ListCommits"
    /\ \E up \in BOOLEAN :
        LET r == ListRequest(lister.opts)
            no == HostPageNo(r)
            size == HostPageSize(pull, r)
            next == HostNextPage(pull, no, size)
            sent == [lister EXCEPT !.requests = Append(@, no), !.ncalls = @ + 1]
        IN  lister' =
                IF DeadlineExpired(lister.ncalls)
                THEN [sent EXCEPT !.pc = "done", !.commitSHAs = <<>>,
                                  !.err = "context deadline exceeded"]
                ELSE IF ~up
                THEN [sent EXCEPT !.pc = "done", !.commitSHAs = <<>>, !.err = "list-commits"]
                ELSE IF next = 0
                THEN [sent EXCEPT !.pc = "done",
                                  !.commitSHAs = @ \o HostPage(pull, no, size)]
                ELSE [sent EXCEPT !.commitSHAs = @ \o HostPage(pull, no, size),
                                  !.opts = [@ EXCEPT !.Page = next]]
    /\ UNCHANGED <<objects, refs, req, frames, calls, pull, tool, pulls>>

\* ------------------------------------------------------------------ main

IdleTool ==
    [pc |-> "idle", to |-> <<>>, pr |-> 0, repo |-> "teleport",
     owner |-> "gravitational",
     hosts |-> [home |-> TRUE, readable |-> TRUE, yaml |-> TRUE, token |-> "gho"],
     backportBranches |-> <<>>, t |-> 0,
     commits |-> <<>>, branchName |-> "", err |-> ""]

\* main, lines 44-72: the state when the flags are parsed and the client is
\* made.
StartTool(pr, backportBranches) ==
    [IdleTool EXCEPT !.pc = "GetPullRequestMetadata", !.pr = pr,
                     !.backportBranches = backportBranches]

\* main, line 80: the range loop takes the next target, or the run is
\* complete (line 96).
NextTarget(tl) ==
    IF tl.t < Len(tl.backportBranches)
    THEN [tl EXCEPT !.pc = "Backport", !.t = @ + 1]
    ELSE [tl EXCEPT !.pc = "complete", !.t = @ + 1]

\* A failure that ends the target's unit only: the loop goes on.
FatalEndsTargetOnly(tl, e) ==
    IF tl.t >= 1 THEN NextTarget([tl EXCEPT !.err = e])
    ELSE [tl EXCEPT !.pc = "fatal", !.err = e]

\* main, lines 76-78, 84-86 and 92-94: log.Fatal ends the run.
Fatal(tl, e) == [tl EXCEPT !.pc = "fatal", !.err = e]

\* A metadata check that accepts a pull request in any state.
MetadataErrorIgnoresState(p) ==
    IF TrimPrefix(p.base, branchRefPrefix) # masterBranchName
    THEN "pull request's base is not master"
    ELSE ""

\* GetPullRequestMetadata, lines 116-121: the checks on the pull request,
\* "" when they pass.
MetadataError(p) ==
    IF p.state # backportPRState THEN "pull request is not closed"
    ELSE IF TrimPrefix(p.base, branchRefPrefix) # masterBranchName
    THEN "pull request's base is not master"
    ELSE ""

\* main, lines 164-166.
generateTitleAndBody(pullNumber, targetBranch) ==
    "Backport #" \o ToString(pullNumber) \o " to " \o targetBranch

\* A pull request opened from the target into the new branch.
NewPullRequestSwapped(baseBranch, headBranch, titleAndBody) ==
    [title |-> titleAndBody, head |-> baseBranch, base |-> headBranch,
     body |-> titleAndBody, maintainerCanModify |-> TRUE]

\* CreatePullRequest, lines 95-101.
NewPullRequest(baseBranch, headBranch, titleAndBody) ==
    [title |-> titleAndBody, head |-> headBranch, base |-> baseBranch,
     body |-> titleAndBody, maintainerCanModify |-> TRUE]

\* GetPullRequestMetadata, lines 112-123: get-pull-request, the checks, and
\* the call of getPullRequestCommits.
GetPullRequestMetadata_Get ==
    /\ tool.pc = "GetPullRequestMetadata"
    /\ \E up \in BOOLEAN :
        IF ~up
        THEN /\ tool' = Fatal(tool, "get-pull-request")
             /\ UNCHANGED lister
        ELSE IF MetadataError(pull) # ""
        THEN /\ tool' = Fatal(tool, MetadataError(pull))
             /\ UNCHANGED lister
        ELSE /\ tool' = [tool EXCEPT !.pc = "getPullRequestCommits"]
             /\ lister' = StartLister
    /\ UNCHANGED <<objects, refs, req, frames, calls, pull, pulls>>

\* GetPullRequestMetadata, lines 123-127, and main, lines 75-80:
\* getPullRequestCommits has returned; its error is fatal, else main has the
\* commits and the source branch's name and enters the loop.
GetPullRequestMetadata_Return ==
    /\ tool.pc = "getPullRequestCommits"
    /\ lister.pc = "done"
    /\ tool' = IF lister.err # "" THEN Fatal(tool, lister.err)
               ELSE NextTarget([tool EXCEPT
                        !.commits = lister.commitSHAs,
                        !.branchName = TrimPrefix(pull.head, branchRefPrefix)])
    /\ UNCHANGED <<objects, refs, req, frames, calls, pull, lister, pulls>>

\* main, line 83: the call of Backport for the target.
main_Backport ==
    /\ tool.pc = "Backport"
    /\ LET t == tool.t
       IN  /\ req' = [req EXCEPT ![t] =
                    [baseBranchName |-> tool.backportBranches[t],
                     backportBranchName |-> tool.branchName,
                     commits |-> tool.commits]]
           /\ frames' = [frames EXCEPT ![t] = StartFrame]
    /\ tool' = [tool EXCEPT !.pc = "CreatePullRequest"]
    /\ UNCHANGED <<objects, refs, calls, pull, lister, pulls>>

\* main, lines 84-95: Backport has returned; its error is fatal, else
\* create-pull-request is issued, whose error is fatal.
main_CreatePullRequest ==
    /\ tool.pc = "CreatePullRequest"
    /\ frames[tool.t].pc = "done"
    /\ LET targetBranch == tool.backportBranches[tool.t]
           newBranchName == frames[tool.t].ret
       IN  IF frames[tool.t].err # ""
           THEN /\ tool' = Fatal(tool, frames[tool.t].err)
                /\ UNCHANGED pulls
           ELSE \E up \in BOOLEAN :
                IF up
                THEN /\ pulls' = Append(pulls,
                            NewPullRequest(targetBranch, newBranchName,
                                           generateTitleAndBody(tool.pr, targetBranch)))
                     /\ tool' = NextTarget(tool)
                ELSE /\ tool' = Fatal(tool, "create-pull-request")
                     /\ UNCHANGED pulls
    /\ UNCHANGED <<objects, refs, req, frames, calls, pull, lister>>

\* ------------------------------------------------------------------ flags

\* A string is a sequence of characters; these are the characters of the
\* flag's values.
Chars == {"v", "9", " ", ","}

RECURSIVE Str(_)
\* The string of a sequence of characters.
Str(cs) == IF cs = <<>> THEN "" ELSE cs[1] \o Str(Tail(cs))

RECURSIVE Split(_, _)
\* strings.Split: the pieces of s between the separators, one more than
\* there are separators.
Split(s, sep) ==
    IF \A k \in 1..Len(s) : s[k] # sep THEN <<s>>
    ELSE LET at == CHOOSE k \in 1..Len(s) :
                        s[k] = sep /\ \A l \in 1..(k - 1) : s[l] # sep
         IN  <<SubSeq(s, 1, at - 1)>> \o Split(SubSeq(s, at + 1, Len(s)), sep)

RECURSIVE TrimSpace(_)
\* strings.TrimSpace: s without its leading and trailing white space.
TrimSpace(s) ==
    IF s = <<>> THEN s
    ELSE IF s[1] = " " THEN TrimSpace(Tail(s))
    ELSE IF s[Len(s)] = " " THEN TrimSpace(SubSeq(s, 1, Len(s) - 1))
    ELSE s

\* parseFlags, main lines 137-146: its error, "" when there is none.
parseFlags(to, pr) ==
    IF to = <<>> THEN "must supply branches to backport to."
    ELSE IF pr = 0 THEN "much supply pull request with changes to backport."
    ELSE ""

\* parseBranches, main lines 150-160: split on commas, an empty piece is an
\* error, each piece is kept with its white space trimmed.
parseBranches(branchesInput) ==
    LET branches == Split(branchesInput, ",")
    IN  IF \E k \in 1..Len(branches) : branches[k] = <<>>
        THEN [backportBranches |-> <<>>, err |-> "recieved an empty branch name."]
        ELSE [backportBranches |-> [k \in 1..Len(branches) |-> Str(TrimSpace(branches[k]))],
              err |-> ""]

\* getGithubToken, main lines 111-132: the token of the GitHub CLI's hosts
\* file, or the error of finding, reading or decoding the file, or of its
\* token missing.
getGithubToken(hosts) ==
    IF ~hosts.home THEN [token |-> "", err |-> "user home dir"]
    ELSE IF ~hosts.readable THEN [token |-> "", err |-> "read file"]
    ELSE IF ~hosts.yaml THEN [token |-> "", err |-> "unmarshal"]
    ELSE IF hosts.token = "" THEN [token |-> "", err |-> "missing Github token."]
    ELSE [token |-> hosts.token, err |-> ""]

\* Config.Check, github.go lines 56-67: its error, "" when there is none.
Check(c) ==
    IF c.Token = "" THEN "missing token"
    ELSE IF c.Organization = "" THEN "missing organization"
    ELSE IF c.Repository = "" THEN "missing repository"
    ELSE ""

\* main, lines 47-72: the flags are checked, the token is read, the target
\* list is parsed and the client is made, in this order; the first error
\* ends the run.
main_parseFlags ==
    /\ tool.pc = "parseFlags"
    /\ LET token == getGithubToken(tool.hosts)
           parsed == parseBranches(tool.to)
           config == [Token |-> token.token, Repository |-> tool.repo,
                      Organization |-> tool.owner]
       IN  tool' =
            IF parseFlags(tool.to, tool.pr) # ""
            THEN Fatal(tool, parseFlags(tool.to, tool.pr))
            ELSE IF token.err # "" THEN Fatal(tool, token.err)
            ELSE IF parsed.err # "" THEN Fatal(tool, parsed.err)
            ELSE IF Check(config) # "" THEN Fatal(tool, Check(config))
            ELSE [tool EXCEPT !.pc = "GetPullRequestMetadata",
                              !.backportBranches = parsed.backportBranches]
    /\ UNCHANGED <<objects, refs, req, frames, calls, pull, lister, pulls>>

\* ------------------------------------------------------------------ specifications

NoPull ==
    [commits |-> <<>>, pageSize |-> 1, state |-> backportPRState,
     base |-> masterBranchName, head |-> "feature-x"]

\* The repository before a run: the trees of the release tip and of the master
\* commit, the changes of the n commits, and the shape of the commit at badPos.
InitHost(n, releaseTrees, masterTrees, changeSets) ==
    \E tA \in releaseTrees, tP \in masterTrees, changes \in [1..n -> changeSets],
       badPos \in 0..n, badShape \in {0, 2} :
        /\ badPos = 0 => badShape = 2
        /\ objects = InitObjects(n, tA, tP, changes, badPos, badShape)
        /\ refs = InitRefs

Request(base, label, n) ==
    [baseBranchName |-> base, backportBranchName |-> label,
     commits |-> [k \in 1..n |-> PullParentSHA + k]]

\* One invocation of Backport.
Init ==
    /\ \E n \in 0..MaxCommits :
        /\ InitHost(n, Trees, Trees, SUBSET Files)
        /\ req = [i \in Invocations |-> Request("release/1.0", "feature-x", n)]
    /\ frames = [i \in Invocations |-> IF i = 1 THEN StartFrame ELSE IdleFrame]
    /\ calls = [i \in Invocations |-> <<>>]
    /\ pull = NoPull
    /\ lister = IdleLister
    /\ tool = IdleTool
    /\ pulls = <<>>

Next == \E i \in Invocations : Backport(i)

Spec == Init /\ [][Next]_vars

\* Two invocations of Backport at once, for the same base branch.
InitConc ==
    /\ \E n \in 0..MaxConcCommits, label \in Labels :
        /\ InitHost(n, {[f \in Files |-> IF f = "X" THEN 1 ELSE 0]},
                       {[f \in Files |-> 0]}, {{"Y"}})
        /\ req = [i \in Invocations |->
                    Request("release/1.0", IF i = 1 THEN "feature-x" ELSE label, n)]
    /\ frames = [i \in Invocations |-> StartFrame]
    /\ calls = [i \in Invocations |-> <<>>]
    /\ pull = NoPull
    /\ lister = IdleLister
    /\ tool = IdleTool
    /\ pulls = <<>>

SpecConc == InitConc /\ [][Next]_vars

\* The listing of a pull request's commits.
InitPages ==
    /\ \E n \in 0..MaxPullCommits, size \in 1..MaxPageSize :
        pull = [NoPull EXCEPT !.commits = [k \in 1..n |-> PullParentSHA + k],
                              !.pageSize = size]
    /\ lister = StartLister
    /\ tool = IdleTool
    /\ pulls = <<>>
    /\ objects = InitObjects(0, [f \in Files |-> 0], [f \in Files |-> 0], <<>>, 0, 2)
    /\ refs = InitRefs
    /\ req = [i \in Invocations |-> Request("release/1.0", "feature-x", 0)]
    /\ frames = [i \in Invocations |-> IdleFrame]
    /\ calls = [i \in Invocations |-> <<>>]

NextPages == getPullRequestCommits_ListCommits

SpecPages == InitPages /\ [][NextPages]_vars

\* The references of a repository with two release branches.
InitMainRefs == InitRefs @@ (RefName("release/2.0") :> RootSHA)

\* A run of the tool.
InitMain ==
    /\ \E n \in 0..MaxMainCommits, size \in {1, MaxMainCommits},
          state \in {"open", backportPRState},
          base \in {masterBranchName, RefName(masterBranchName), RefName("branch/v9")},
          head \in {"feature-x", RefName("feature-y")} :
        /\ \E tA \in {[f \in Files |-> IF f = "X" THEN 1 ELSE 0]},
              tP \in {[f \in Files |-> 0]},
              badPos \in 0..n :
            objects = InitObjects(n, tA, tP, [k \in 1..n |-> {"Y"}], badPos, 2)
        /\ pull = [commits |-> [k \in 1..n |-> PullParentSHA + k], pageSize |-> size,
                   state |-> state, base |-> base, head |-> head]
    /\ refs = InitMainRefs
    /\ \E pr \in PullNumbers, m \in Invocations :
        \E backportBranches \in [1..m -> Targets] :
            tool = StartTool(pr, backportBranches)
    /\ req = [i \in Invocations |-> Request("", "", 0)]
    /\ frames = [i \in Invocations |-> IdleFrame]
    /\ calls = [i \in Invocations |-> <<>>]
    /\ lister = IdleLister
    /\ pulls = <<>>

NextMain ==
    \/ GetPullRequestMetadata_Get
    \/ getPullRequestCommits_ListCommits
    \/ GetPullRequestMetadata_Return
    \/ main_Backport
    \/ \E i \in Invocations : Backport(i)
    \/ main_CreatePullRequest

SpecMain == InitMain /\ [][NextMain]_vars

\* The values of the flag of at most MaxInputLen characters that name no more
\* targets than there are invocations.
Inputs ==
    {to \in UNION {[1..n -> Chars] : n \in 0..MaxInputLen} :
        Len(Split(to, ",")) <= Cardinality(Invocations)}

\* The hosts file of the GitHub CLI as the run finds it: no home directory,
\* no readable file, not YAML, no token, or a token.
HostsFiles ==
    {[home |-> h, readable |-> r, yaml |-> y, token |-> t] :
        h \in BOOLEAN, r \in BOOLEAN, y \in BOOLEAN, t \in {"", "gho"}}

\* The references of a repository whose release branch is v9.
InitToolRefs == (RefName(masterBranchName) :> PullParentSHA) @@ (RefName("v9") :> BaseTipSHA)

\* A run of the tool from its command line, for a closed pull request of one
\* commit.
InitTool ==
    /\ \E to \in Inputs, pr \in {0, 7}, repo \in {"", "teleport"},
          owner \in {"", "gravitational"}, hosts \in HostsFiles :
        /\ ~hosts.home => ~hosts.readable
        /\ ~hosts.readable => ~hosts.yaml
        /\ ~hosts.yaml => hosts.token = ""
        /\ tool = [IdleTool EXCEPT !.pc = "parseFlags", !.to = to, !.pr = pr,
                                   !.repo = repo, !.owner = owner, !.hosts = hosts]
    /\ objects = InitObjects(1, [f \in Files |-> IF f = "X" THEN 1 ELSE 0],
                            [f \in Files |-> 0], <<{"Y"}>>, 0, 2)
    /\ refs = InitToolRefs
    /\ pull = [NoPull EXCEPT !.commits = <<PullParentSHA + 1>>]
    /\ req = [i \in Invocations |-> Request("", "", 0)]
    /\ frames = [i \in Invocations |-> IdleFrame]
    /\ calls = [i \in Invocations |-> <<>>]
    /\ lister = IdleLister
    /\ pulls = <<>>

NextTool ==
    \/ main_parseFlags
    \/ NextMain

SpecTool == InitTool /\ [][NextTool]_vars

\* ------------------------------------------------------------------ properties

Done(i) == frames[i].pc = "done"
Succeeded(i) == Done(i) /\ frames[i].err = "" /\ frames[i].ret # ""
BranchExists(i) == RefExists(refs, RefName(BranchOf(i)))
BranchTip(i) == refs[RefName(BranchOf(i))]

\* Invocation i returns in this step.
Returns(i) == frames[i].pc # "done" /\ frames'[i].pc = "done"

\* The gateway calls of a cherry-pick step that can fail.
StepCalls ==
    {"sibling-create-commit", "sibling-update-ref", "merge", "merge-get-commit",
     "re-fetch", "final-create-commit", "final-update-ref"}

\* C1 as stated: whenever Backport returns after a gateway call of a cherry-pick
\* step failed, the new branch does not exist at that moment.
C1_RollbackAlways ==
    [][\A i \in Invocations :
        Returns(i) /\ frames'[i].failedAt \in StepCalls => ~BranchExists(i)']_vars

\* C1 amended: whenever Backport returns after a gateway call of a cherry-pick
\* step failed, the new branch does not exist at that moment, unless the
\* delete-ref issued for it failed.
C1_RollbackUnlessDeleteFails ==
    [][\A i \in Invocations :
        Returns(i) /\ frames'[i].failedAt \in StepCalls /\ frames'[i].cleanup # "failed"
            => ~BranchExists(i)']_vars

\* A second step failed after the first one repointed the branch, and the
\* branch was deleted.
C1_Witness ==
    \E i \in Invocations :
        /\ Done(i) /\ frames[i].failedAt \in StepCalls
        /\ frames[i].i >= 1 /\ frames[i].cleanup = "ok"
        /\ ~BranchExists(i)

\* The tree t with the change of commit sha (its tree against its first
\* parent's tree) applied.
ApplyDiff(objs, t, sha) ==
    LET c == objs[sha]
        p == objs[c.parents[1]]
    IN  [f \in Files |-> IF c.tree[f] # p.tree[f] THEN c.tree[f] ELSE t[f]]

RECURSIVE ApplyDiffs(_, _, _, _)
\* The tree t with the changes of the first k commits applied in order.
ApplyDiffs(objs, t, commits, k) ==
    IF k = 0 THEN t
    ELSE ApplyDiff(objs, ApplyDiffs(objs, t, commits, k - 1), commits[k])

\* C2: when Backport returns successfully for a non-empty list of commits, the
\* tree of the new branch's tip is the base tip's tree with every commit's
\* change applied in list order.
C2_CherryPickEquivalence ==
    \A i \in Invocations :
        Succeeded(i) /\ Len(req[i].commits) >= 1 =>
            /\ BranchExists(i)
            /\ objects[BranchTip(i)].tree =
                ApplyDiffs(objects, objects[frames[i].baseBranchSHA].tree,
                           req[i].commits, Len(req[i].commits))

\* Two commits were cherry-picked onto a release tip that differs from master,
\* and the result is neither the base tree nor the last commit's tree.
C2_Witness ==
    \E i \in Invocations :
        /\ Succeeded(i) /\ Len(req[i].commits) >= 2
        /\ objects[BranchTip(i)].tree # objects[frames[i].baseBranchSHA].tree
        /\ objects[BranchTip(i)].tree # objects[req[i].commits[Len(req[i].commits)]].tree
        /\ objects[PullParentSHA].tree # objects[RootSHA].tree

\* Some commit of the request has more than one parent.
HasMergeCommit(i) ==
    \E k \in 1..Len(req[i].commits) : Len(objects[req[i].commits[k]].parents) > 1

\* C3: whenever Backport returns for a list that holds a commit with more than
\* one parent, it returns an error and the new branch does not exist.
C3_RejectionLeavesNoBranch ==
    [][\A i \in Invocations :
        Returns(i) /\ HasMergeCommit(i) =>
            /\ frames'[i].err # "" /\ frames'[i].ret = ""
            /\ ~BranchExists(i)']_vars

\* The write calls among the gateway calls.
WriteOps == {"create-commit", "merge", "update-ref", "delete-ref"}
Wrote(i) == \E k \in 1..Len(calls[i]) : calls[i][k].op \in WriteOps

SamePair(i, j) ==
    /\ req[i].baseBranchName = req[j].baseBranchName
    /\ req[i].backportBranchName = req[j].backportBranchName

\* Invocation i issues create-ref in this step, for a name that exists.
Collides(i) ==
    /\ frames[i].pc = "createBranchFrom.CreateRef"
    /\ frames'[i].pc # "createBranchFrom.CreateRef"
    /\ BranchExists(i)

\* C4: invocations for the same pair compute the same branch name; an
\* invocation whose create-ref finds the name taken returns the error there,
\* leaves every reference as it was, and has issued and will issue no
\* create-commit, merge, update-ref or delete-ref.
C4_CollisionFailsAtCreateRef ==
    /\ [](\A i, j \in Invocations : SamePair(i, j) => BranchOf(i) = BranchOf(j))
    /\ [](\A i \in Invocations :
            frames[i].err = "reference already exists" =>
                Done(i) /\ frames[i].ret = "" /\ ~frames[i].created /\ ~Wrote(i))
    /\ [][\A i \in Invocations :
            Collides(i) =>
                /\ frames'[i].pc = "done"
                /\ frames'[i].err = "reference already exists"
                /\ refs' = refs
                /\ objects' = objects]_vars

\* The second invocation was refused at create-ref after the first had
\* finished its backport; the branch still points at the first one's result.
C4_Witness ==
    \E i, j \in Invocations :
        /\ i # j /\ SamePair(i, j)
        /\ Succeeded(i) /\ Len(req[i].commits) >= 1
        /\ Done(j) /\ frames[j].err = "reference already exists"
        /\ BranchTip(i) = frames[i].headCommit.sha

\* Invocation i has created the branch and has not returned.
Owns(i) == frames[i].created /\ ~Done(i)

\* Where the branch points while its owner runs alone, by the owner's position.
OwnerView(f) ==
    CASE f.pc \in {"GetBranch", "GetHeadCommit"} -> f.baseBranchSHA
      [] f.pc \in {"GetCherryCommit", "sibling.CreateCommit", "sibling.UpdateRef"} -> f.headCommit.sha
      [] f.pc = "merge.Merge" -> f.siblingSHA
      [] f.pc \in {"merge.GetCommit", "GetUpdatedCommit", "CreateCommit", "UpdateRef"} ->
            IF f.mergeSHA = 0 THEN f.siblingSHA ELSE f.mergeSHA
      [] OTHER -> 0

\* C5: while an invocation owns the branch, no other invocation for the same
\* pair owns it or is past create-ref, a step of another invocation leaves the
\* references alone, and the branch points where the owner's own calls put it.
C5_ExclusiveOwnership ==
    /\ [](\A i, j \in Invocations :
            i # j /\ SamePair(i, j) /\ Owns(i) =>
                /\ frames[j].pc \in {"createBranchFrom.GetBranch", "createBranchFrom.CreateRef", "done"}
                /\ BranchExists(i)
                /\ frames[i].pc # "DeleteRef" => BranchTip(i) = OwnerView(frames[i]))
    /\ [][\A i, j \in Invocations :
            i # j /\ SamePair(i, j) /\ Owns(i) /\ frames'[j] # frames[j] =>
                /\ refs' = refs
                /\ ~frames'[j].created \/ frames'[j].pc = "done"]_vars

\* The owner is in the middle of a step, the branch at its sibling commit,
\* and the other invocation has been refused at create-ref.
C5_Witness ==
    \E i, j \in Invocations :
        /\ i # j /\ SamePair(i, j)
        /\ Owns(i) /\ frames[i].pc = "merge.Merge" /\ BranchTip(i) = frames[i].siblingSHA
        /\ Done(j) /\ frames[j].err = "reference already exists"

\* C6: in every terminal state of a Backport whose create-ref succeeded, either
\* it returned an error and the new branch does not exist, or it returned the
\* branch name and the branch points at the final commit of the last step.
C6_BranchLifecycleAtReturn ==
    \A i \in Invocations :
        Done(i) /\ frames[i].created =>
            \/ frames[i].err # "" /\ frames[i].ret = "" /\ ~BranchExists(i)
            \/ /\ frames[i].err = "" /\ frames[i].ret = BranchOf(i)
               /\ BranchExists(i)
               /\ BranchTip(i) = frames[i].headCommit.sha
               /\ Len(frames[i].steps) = Len(req[i].commits)

RECURSIVE Chain(_, _, _)
\* The n commits that end at sha, oldest first, following first parents; the
\* walk stops short at a commit without parents.
Chain(objs, sha, n) ==
    IF n = 0 \/ ~CommitExists(objs, sha) THEN <<>>
    ELSE IF Len(objs[sha].parents) = 0 THEN <<sha>>
    ELSE Append(Chain(objs, objs[sha].parents[1], n - 1), sha)

\* C7: when Backport returns successfully for n commits, the n commits that
\* end at the new branch's tip are new, have one parent each, carry the
\* messages of the input commits in order and the trees of the steps' merges,
\* and the first of them has the base branch's tip as its parent.
C7_LinearHistory ==
    \A i \in Invocations :
        Succeeded(i) =>
            LET n == Len(req[i].commits)
                ch == Chain(objects, BranchTip(i), n)
                below(k) == IF k = 1 THEN frames[i].baseBranchSHA ELSE ch[k - 1]
            IN  /\ BranchExists(i)
                /\ Len(ch) = n
                /\ Len(frames[i].steps) = n
                /\ n = 0 => BranchTip(i) = frames[i].baseBranchSHA
                /\ \A k \in 1..n :
                    /\ ch[k] > PullParentSHA + n
                    /\ objects[ch[k]].parents = <<below(k)>>
                    /\ objects[ch[k]].message = objects[req[i].commits[k]].message
                    /\ objects[ch[k]].tree = objects[frames[i].steps[k].merge].tree
                /\ frames[i].baseBranchSHA = refs[RefName(req[i].baseBranchName)]

\* Two commits were cherry-picked: the tip carries the second commit's
\* message, its parent the first one's, and that one sits on the base tip.
C7_Witness ==
    \E i \in Invocations :
        /\ Succeeded(i) /\ Len(req[i].commits) = 2
        /\ objects[BranchTip(i)].message = MsgOf(2)
        /\ objects[objects[BranchTip(i)].parents[1]].message = MsgOf(1)
        /\ objects[objects[BranchTip(i)].parents[1]].parents = <<BaseTipSHA>>

\* The sibling and merge commits of the completed steps of invocation i.
Transients(i) ==
    UNION {{frames[i].steps[k].sibling, frames[i].steps[k].merge} : k \in 1..Len(frames[i].steps)}

\* C8: once a cherry-pick step has completed, no reference points at its
\* sibling commit or at its merge commit, and neither is an ancestor of the
\* step's final commit or of the commit the new branch points at.
C8_TransientsUnreferenced ==
    \A i \in Invocations :
        /\ \A r \in DOMAIN refs : Ancestors(objects, refs[r]) \cap Transients(i) = {}
        /\ \A k \in 1..Len(frames[i].steps) :
            Ancestors(objects, frames[i].steps[k].final) \cap Transients(i) = {}

\* A step has completed: its sibling and merge commits exist on the host,
\* and the branch points at the step's final commit.
C8_Witness ==
    \E i \in Invocations :
        /\ Len(frames[i].steps) >= 1
        /\ BranchExists(i)
        /\ BranchTip(i) = frames[i].steps[Len(frames[i].steps)].final
        /\ \A k \in 1..Len(frames[i].steps) :
            /\ CommitExists(objects, frames[i].steps[k].sibling)
            /\ CommitExists(objects, frames[i].steps[k].merge)
            /\ objects[frames[i].steps[k].merge].parents[1] = frames[i].steps[k].sibling

\* The error a cherry-pick step returns when it fails at the given point.
ErrorOf(at) ==
    CASE at = "guard" -> "merge commits are not supported"
      [] at \in {"sibling-create-commit", "final-create-commit"} -> "create-commit"
      [] at \in {"sibling-update-ref", "final-update-ref"} -> "update-ref"
      [] at = "merge" -> "merge"
      [] at \in {"merge-get-commit", "re-fetch"} -> "get-commit"
      [] OTHER -> ""

\* The last gateway call of invocation i.
LastCall(i) == calls[i][Len(calls[i])]

\* C11: when a cherry-pick step has failed and the delete-ref of the new
\* branch has run, Backport returns the step's error and an empty branch
\* name, whether the delete-ref succeeded or failed.
C11_PrimaryErrorKept ==
    \A i \in Invocations :
        Done(i) /\ frames[i].cleanup # "none" =>
            /\ LastCall(i).op = "delete-ref"
            /\ LastCall(i).ok = (frames[i].cleanup = "ok")
            /\ frames[i].failedAt \in StepCalls \cup {"guard"}
            /\ frames[i].err = ErrorOf(frames[i].failedAt)
            /\ frames[i].ret = ""

\* A merge failed, the delete-ref failed too, and Backport has returned.
C11_Witness ==
    \E i \in Invocations :
        /\ Done(i) /\ frames[i].failedAt = "merge"
        /\ frames[i].cleanup = "failed"
        /\ LastCall(i).op = "delete-ref" /\ ~LastCall(i).ok
        /\ frames[i].err = "merge"

\* The number of calls of the given operation invocation i has issued.
CallCount(i, op) == Cardinality({k \in 1..Len(calls[i]) : calls[i][k].op = op})

\* C12: a failed gateway call of Backport is its last call, or is followed
\* by nothing but one delete-ref of the new branch; a step that failed at
\* its sibling update-ref or later has issued no merge, final create-commit
\* or final update-ref beyond those it had issued when it failed.
C12_FailFast ==
    \A i \in Invocations :
        LET n == Len(calls[i])
        IN  /\ \A k \in 1..n :
                ~calls[i][k].ok =>
                    \/ k = n
                    \/ /\ k = n - 1
                       /\ calls[i][k].op # "delete-ref"
                       /\ calls[i][n].op = "delete-ref"
                       /\ calls[i][n].arg = RefName(BranchOf(i))
            /\ frames[i].failedAt = "sibling-update-ref" =>
                /\ CallCount(i, "merge") = Len(frames[i].steps)
                /\ CallCount(i, "create-commit") = 2 * Len(frames[i].steps) + 1
                /\ CallCount(i, "update-ref") = 2 * Len(frames[i].steps) + 1
            /\ frames[i].failedAt = "merge" =>
                /\ CallCount(i, "merge") = Len(frames[i].steps) + 1
                /\ CallCount(i, "create-commit") = 2 * Len(frames[i].steps) + 1
                /\ CallCount(i, "update-ref") = 2 * Len(frames[i].steps) + 1

\* The sibling update-ref of the second step failed, the delete-ref followed,
\* and Backport has returned.
C12_Witness ==
    \E i \in Invocations :
        /\ Done(i) /\ frames[i].failedAt = "sibling-update-ref"
        /\ Len(frames[i].steps) = 1
        /\ Len(calls[i]) >= 2
        /\ calls[i][Len(calls[i]) - 1].op = "update-ref"
        /\ ~calls[i][Len(calls[i]) - 1].ok
        /\ LastCall(i).op = "delete-ref"

\* The position in the call log of the get-commit of the k-th commit to
\* apply, 0 when it has not been issued.
CherryFetch(i, k) ==
    LET at == {j \in 5..Len(calls[i]) :
                  calls[i][j].op = "get-commit" /\ calls[i][j].arg = req[i].commits[k]}
    IN  IF k \in 1..Len(req[i].commits) /\ at # {} THEN CHOOSE j \in at : TRUE ELSE 0

\* The calls of the k-th step: those after the get-commit of its commit and
\* before the get-commit of the next one.
CallsOfStep(i, k) ==
    LET next == CherryFetch(i, k + 1)
    IN  SubSeq(calls[i], CherryFetch(i, k) + 1,
               IF next # 0 THEN next - 1 ELSE Len(calls[i]))

\* The tip the k-th step started from.
TipBefore(i, k) ==
    IF k = 1 THEN frames[i].baseBranchSHA ELSE frames[i].steps[k - 1].final

\* The k-th step made its sibling from the tip's tree and the parent of its
\* commit, and its calls name the branch, the commit and the step's commits.
StepArguments(i, k, c, posTip) ==
    LET st == frames[i].steps[k]
        ref == RefName(BranchOf(i))
        n == Len(c)
    IN  /\ \A j \in 1..n : c[j].ok
        /\ c[1].arg = st.sibling
        /\ objects[st.sibling].tree = objects[TipBefore(i, k)].tree
        /\ objects[st.sibling].parents = <<objects[req[i].commits[k]].parents[1]>>
        /\ c[2].arg = [ref |-> ref, sha |-> st.sibling]
        /\ c[3].arg = [base |-> BranchOf(i), head |-> req[i].commits[k]]
        /\ c[posTip].arg = TipBefore(i, k)
        /\ c[n - 1].arg = st.final
        /\ c[n].arg = [ref |-> ref, sha |-> st.final]

\* The branch points at the sibling when the merge is invoked, and every
\* merge issued, third call of its step, has the branch as base and the
\* step's commit as head.
BranchAtSiblingOnMerge ==
    \A i \in Invocations :
        /\ frames[i].pc = "merge.Merge" /\ BranchExists(i) =>
                BranchTip(i) = frames[i].siblingSHA
        /\ \A j \in 1..Len(calls[i]) :
                calls[i][j].op = "merge" =>
                    \E k \in 1..Len(req[i].commits) :
                        /\ CherryFetch(i, k) = j - 3
                        /\ calls[i][j].arg = [base |-> BranchOf(i), head |-> req[i].commits[k]]

\* C15 as stated: the calls of every completed step are, in this order,
\* create-commit of the sibling, update-ref to it, merge, get-commit of the
\* tip, create-commit of the final commit, update-ref to it; and the branch
\* points at the sibling when merge is invoked.
C15_SixCallsInOrder ==
    /\ BranchAtSiblingOnMerge
    /\ \A i \in Invocations : \A k \in 1..Len(frames[i].steps) :
        LET c == CallsOfStep(i, k)
        IN  /\ [j \in 1..Len(c) |-> c[j].op] =
                   <<"create-commit", "update-ref", "merge", "get-commit",
                     "create-commit", "update-ref">>
            /\ StepArguments(i, k, c, 4)

\* C15 amended: the calls of every completed step are, in this order,
\* create-commit of the sibling, update-ref to it, merge, get-commit of the
\* merge commit, get-commit of the tip, create-commit of the final commit,
\* update-ref to it; and the branch points at the sibling when merge is
\* invoked.
C15_StepProtocolOrder ==
    /\ BranchAtSiblingOnMerge
    /\ \A i \in Invocations : \A k \in 1..Len(frames[i].steps) :
        LET c == CallsOfStep(i, k)
        IN  /\ [j \in 1..Len(c) |-> c[j].op] =
                   <<"create-commit", "update-ref", "merge", "get-commit", "get-commit",
                     "create-commit", "update-ref">>
            /\ StepArguments(i, k, c, 5)
            /\ c[4].arg = frames[i].steps[k].merge

\* Two steps have completed, and a third call of the second one was a merge
\* invoked with the branch at the step's sibling.
C15_Witness ==
    \E i \in Invocations :
        /\ Succeeded(i) /\ Len(frames[i].steps) = 2
        /\ Len(CallsOfStep(i, 2)) >= 3
        /\ CallsOfStep(i, 2)[3].op = "merge"
        /\ objects[frames[i].steps[2].merge].parents[1] = frames[i].steps[2].sibling

\* Invocation i is between two cherry-pick steps, or after the last one.
BetweenSteps(i) ==
    \/ frames[i].pc = "GetCherryCommit"
    \/ Done(i) /\ frames[i].failedAt = "get-cherry-commit"
    \/ Succeeded(i)

\* C16: between two cherry-pick steps and after the last one, the tip the
\* loop carries is the commit the branch points at and the tree it carries is
\* that commit's tree; each step's sibling has the tree of the step before's
\* final commit, and each step's final commit has that commit as its parent.
C16_TipThreading ==
    \A i \in Invocations :
        /\ BetweenSteps(i) =>
            /\ BranchExists(i)
            /\ frames[i].headCommit.sha = BranchTip(i)
            /\ frames[i].headCommit.tree = objects[BranchTip(i)].tree
            /\ Len(frames[i].steps) = frames[i].i
        /\ \A k \in 1..Len(frames[i].steps) :
            /\ objects[frames[i].steps[k].sibling].tree = objects[TipBefore(i, k)].tree
            /\ objects[frames[i].steps[k].final].parents = <<TipBefore(i, k)>>

\* Between the first and the second step, the first having changed the tree.
C16_Witness ==
    \E i \in Invocations :
        /\ frames[i].pc = "GetCherryCommit" /\ Len(frames[i].steps) = 1
        /\ Len(req[i].commits) = 2
        /\ frames[i].headCommit.sha = frames[i].steps[1].final
        /\ frames[i].headCommit.tree # objects[frames[i].baseBranchSHA].tree

\* The calls invocation i has issued for its k-th commit after fetching it,
\* none when it has not fetched it.
CallsAfterFetch(i, k) ==
    IF CherryFetch(i, k) = 0 THEN <<>> ELSE CallsOfStep(i, k)

\* C17: a step has issued create-commit, update-ref or merge only for a
\* commit with exactly one parent; when the step of the k-th commit is
\* rejected for its parents, the step has issued no call, the branch
\* points where the step found it until the delete-ref that follows, and
\* the steps of the commits before have run in full.
C17_GuardLazyNoEffect ==
    \A i \in Invocations :
        /\ \A k \in 1..Len(req[i].commits) :
            (\E j \in 1..Len(CallsAfterFetch(i, k)) :
                CallsAfterFetch(i, k)[j].op \in {"create-commit", "update-ref", "merge"})
                    => Len(objects[req[i].commits[k]].parents) = 1
        /\ frames[i].failedAt = "guard" =>
            LET k == frames[i].i + 1
            IN  /\ Len(objects[req[i].commits[k]].parents) # 1
                /\ frames[i].err = "merge commits are not supported"
                /\ CherryFetch(i, k) # 0
                /\ \A j \in 1..Len(CallsOfStep(i, k)) : CallsOfStep(i, k)[j].op = "delete-ref"
                /\ frames[i].pc = "DeleteRef" =>
                    BranchExists(i) /\ BranchTip(i) = TipBefore(i, k)
                /\ Len(frames[i].steps) = k - 1
                /\ \A j \in 1..(k - 1) :
                    /\ Len(CallsOfStep(i, j)) = 7
                    /\ \A l \in 1..7 : CallsOfStep(i, j)[l].ok
                    /\ CommitExists(objects, frames[i].steps[j].final)
                    /\ objects[frames[i].steps[j].final].message =
                            objects[req[i].commits[j]].message

\* The second commit has no parent: its step was rejected after the first
\* commit's step had run in full, and the delete-ref has not run yet.
C17_Witness ==
    \E i \in Invocations :
        /\ frames[i].failedAt = "guard" /\ frames[i].pc = "DeleteRef"
        /\ Len(frames[i].steps) = 1
        /\ objects[req[i].commits[2]].parents = <<>>
        /\ BranchTip(i) = frames[i].steps[1].final

\* Every create-ref, update-ref, merge and delete-ref that invocation i has
\* issued addresses its new branch.
WritesAddressNewBranch(i) ==
    \A j \in 1..Len(calls[i]) :
        LET c == calls[i][j]
        IN  /\ c.op \in {"create-ref", "delete-ref"} => c.arg = RefName(BranchOf(i))
            /\ c.op = "update-ref" => c.arg.ref = RefName(BranchOf(i))
            /\ c.op = "merge" => c.arg.base = BranchOf(i)

\* A step of the program leaves every existing commit as it was and every
\* reference but the new branch of the invocation that took it where it was.
OthersUntouched ==
    /\ Len(objects') >= Len(objects)
    /\ \A sha \in 1..Len(objects) : objects'[sha] = objects[sha]
    /\ \A i \in Invocations :
        frames'[i] # frames[i] =>
            \A r \in (DOMAIN refs \cup DOMAIN refs') \ {RefName(BranchOf(i))} :
                r \in DOMAIN refs /\ r \in DOMAIN refs' /\ refs'[r] = refs[r]

\* C18: all create-ref, update-ref, merge and delete-ref calls of a Backport
\* invocation address its new branch; no step of it changes a commit that
\* exists, or where a reference other than the new branch points.
C18_OnlyNewBranchWritten ==
    /\ [](\A i \in Invocations : WritesAddressNewBranch(i))
    /\ [][OthersUntouched]_vars

\* Two steps have run: commits were added, the new branch was moved off the
\* base tip, master and the base branch point where they did.
C18_Witness ==
    \E i \in Invocations :
        /\ Succeeded(i) /\ Len(frames[i].steps) = 2
        /\ Len(objects) = PullParentSHA + 2 + 6
        /\ BranchTip(i) # BaseTipSHA
        /\ refs[RefName(req[i].baseBranchName)] = BaseTipSHA
        /\ refs[RefName("master")] = PullParentSHA
        /\ CallCount(i, "update-ref") = 4 /\ CallCount(i, "merge") = 2

\* The commits that came into existence since invocation i started.
NewCommits(i) == (PullParentSHA + Len(req[i].commits) + 1)..Len(objects)

\* The commits invocation i created by create-commit for its k-th commit.
CreatedInStep(i, k) ==
    LET c == CallsAfterFetch(i, k)
    IN  {c[j].arg : j \in {l \in 1..Len(c) : c[l].op = "create-commit" /\ c[l].ok}}

\* The merge commits the host made of the k-th commit of invocation i.
MergedInStep(i, k) ==
    {sha \in NewCommits(i) :
        Len(objects[sha].parents) = 2 /\ objects[sha].parents[2] = req[i].commits[k]}

\* Create-ref succeeded at most once, and every new commit came from the
\* step of one input commit, by create-commit or by the merge.
OneBranchCommitsFromSteps(i, created, merged) ==
    /\ Cardinality({j \in 1..Len(calls[i]) :
            calls[i][j].op = "create-ref" /\ calls[i][j].ok}) <= 1
    /\ \A sha \in NewCommits(i) :
        Cardinality({k \in DOMAIN created : sha \in created[k]}) +
        Cardinality({k \in DOMAIN merged : sha \in merged[k]}) = 1
    /\ \A k \in DOMAIN created : created[k] \cup merged[k] \subseteq NewCommits(i)

\* C19 as stated: an invocation creates one branch reference, the step of
\* an input commit brings at most two commits into existence, a completed
\* one at least one, and a successful run over n commits 2n.
C19_TwoCommitsPerStep ==
    \A i \in Invocations : frames[i].pc # "idle" =>
        LET created == [k \in 1..Len(req[i].commits) |-> CreatedInStep(i, k)]
            merged == [k \in 1..Len(req[i].commits) |-> MergedInStep(i, k)]
        IN  /\ OneBranchCommitsFromSteps(i, created, merged)
            /\ \A k \in 1..Len(req[i].commits) :
                /\ Cardinality(created[k] \cup merged[k]) <= 2
                /\ k <= Len(frames[i].steps) => Cardinality(created[k] \cup merged[k]) >= 1
            /\ Succeeded(i) => Cardinality(NewCommits(i)) = 2 * Len(req[i].commits)

\* C19 amended: an invocation creates one branch reference; the step of an
\* input commit brings at most three commits into existence, at most two by
\* create-commit and at most one by the host's merge, a completed step
\* exactly three; a successful run over n commits brings 3n, 2n of them by
\* create-commit.
C19_ThreeCommitsPerStep ==
    \A i \in Invocations : frames[i].pc # "idle" =>
        LET created == [k \in 1..Len(req[i].commits) |-> CreatedInStep(i, k)]
            merged == [k \in 1..Len(req[i].commits) |-> MergedInStep(i, k)]
        IN  /\ OneBranchCommitsFromSteps(i, created, merged)
            /\ \A k \in 1..Len(req[i].commits) :
                /\ Cardinality(created[k]) <= 2
                /\ Cardinality(merged[k]) <= 1
                /\ k <= Len(frames[i].steps) =>
                    /\ created[k] = {frames[i].steps[k].sibling, frames[i].steps[k].final}
                    /\ merged[k] = {frames[i].steps[k].merge}
                    /\ Cardinality(created[k] \cup merged[k]) = 3
            /\ Succeeded(i) =>
                /\ Cardinality(NewCommits(i)) = 3 * Len(req[i].commits)
                /\ CallCount(i, "create-commit") = 2 * Len(req[i].commits)

\* A run over two commits has succeeded and six commits came into existence.
C19_Witness ==
    \E i \in Invocations :
        /\ Succeeded(i) /\ Len(req[i].commits) = 2
        /\ Cardinality(NewCommits(i)) = 6
        /\ Cardinality(CreatedInStep(i, 1) \cup CreatedInStep(i, 2)) = 4
        /\ Cardinality(MergedInStep(i, 1) \cup MergedInStep(i, 2)) = 2

\* The pull request is closed and its base, the prefix stripped, is master.
Backportable ==
    /\ pull.state = "closed"
    /\ \/ pull.base = "master"
       \/ pull.base = "refs/heads/master"

\* The run of the tool has listed commits or written to the host.
ListedOrWrote ==
    \/ lister.pc # "idle"
    \/ \E i \in Invocations : frames[i].pc # "idle" \/ calls[i] # <<>>
    \/ refs # InitMainRefs
    \/ Len(objects) > PullParentSHA + Len(pull.commits)
    \/ pulls # <<>>

\* C13: in a run of the tool, unless the pull request is closed and its
\* base, the refs/heads/ prefix stripped, is master, no commit is listed, no
\* branch and no commit is created and no pull request is opened, and
\* GetPullRequestMetadata, once it has got the pull request, returns an error
\* that ends the run.
C13_PreconditionGatesWrites ==
    /\ ListedOrWrote => Backportable
    /\ ~Backportable /\ tool.pc # "GetPullRequestMetadata" =>
            /\ tool.pc = "fatal"
            /\ tool.err \in {"get-pull-request", "pull request is not closed",
                             "pull request's base is not master"}
            /\ tool.commits = <<>> /\ tool.branchName = ""
            /\ lister.requests = <<>>

\* A closed pull request whose base is another branch was refused: the run
\* has ended with nothing listed and nothing written.
C13_Witness ==
    /\ tool.pc = "fatal"
    /\ pull.state = "closed" /\ pull.base = "refs/heads/branch/v9"
    /\ tool.err = "pull request's base is not master"
    /\ lister.pc = "idle" /\ refs = InitMainRefs /\ pulls = <<>>

\* The run has ended, by a failure or by completing the loop.
RunEnded == tool.pc \in {"fatal", "complete"}

\* The k-th target was backported onto its branch and has its pull request.
TargetDone(k) ==
    /\ Succeeded(k)
    /\ \E j \in 1..Len(pulls) :
        pulls[j].base = tool.backportBranches[k] /\ pulls[j].head = frames[k].ret

\* C14 as stated: when a run over several targets has ended by a failure at
\* one target, every other target, whatever its position, was backported
\* onto its branch and has its pull request.
C14_TargetsIndependent ==
    RunEnded /\ tool.t >= 1 =>
        \A k \in 1..Len(tool.backportBranches) :
            ~(tool.pc = "fatal" /\ k = tool.t) => TargetDone(k)

\* C14 amended: targets are taken one after the other; a failure at one
\* target ends the run: the targets listed before it were backported and
\* have their pull requests, and no target listed after it is started.
C14_FailureEndsRun ==
    /\ \A k \in 1..Len(tool.backportBranches) :
        /\ frames[k].pc # "idle" => \A j \in 1..(k - 1) : TargetDone(j)
        /\ k > tool.t => frames[k].pc = "idle" /\ calls[k] = <<>>
    /\ Len(pulls) <= tool.t
    /\ tool.pc = "fatal" /\ tool.t >= 1 =>
        /\ tool.t <= Len(tool.backportBranches)
        /\ Done(tool.t)
        /\ Len(pulls) = tool.t - 1
        /\ tool.err = IF frames[tool.t].err # "" THEN frames[tool.t].err
                      ELSE "create-pull-request"
    /\ tool.pc = "complete" =>
        \A k \in 1..Len(tool.backportBranches) : TargetDone(k)

\* The first of two targets failed in a cherry-pick step: the run has ended
\* and the second target was never started.
C14_Witness ==
    /\ tool.pc = "fatal" /\ tool.t = 1
    /\ Len(tool.backportBranches) = 2
    /\ tool.backportBranches[1] # tool.backportBranches[2]
    /\ frames[1].failedAt \in StepCalls
    /\ frames[2].pc = "idle" /\ calls[2] = <<>> /\ pulls = <<>>
    /\ ~RefExists(refs, RefName(NewBranchName(tool.backportBranches[2], tool.branchName)))

\* C20: in a run of the tool the k-th pull request opened is that of the
\* k-th target listed, opened after Backport to it returned successfully:
\* its base is the target, its head the branch name Backport returned,
\* auto-backport/<target>/<source branch>, its title and its body
\* "Backport #<N> to <target>"; a target is started only when the one
\* before it has its pull request, and a target whose Backport failed has
\* none.
C20_PullRequestAfterBackport ==
    /\ Len(pulls) <= Len(tool.backportBranches)
    /\ \A k \in 1..Len(pulls) :
        LET T == tool.backportBranches[k]
        IN  /\ Succeeded(k)
            /\ req[k].baseBranchName = T
            /\ req[k].commits = pull.commits
            /\ pulls[k].base = T
            /\ pulls[k].head = frames[k].ret
            /\ pulls[k].head = "auto-backport/" \o T \o "/" \o
                    (IF pull.head = "refs/heads/feature-y" THEN "feature-y" ELSE pull.head)
            /\ pulls[k].title = "Backport #" \o ToString(tool.pr) \o " to " \o T
            /\ pulls[k].body = pulls[k].title
    /\ \A k \in 1..Len(tool.backportBranches) :
        /\ frames[k].pc # "idle" => Len(pulls) >= k - 1
        /\ Done(k) /\ frames[k].err # "" => Len(pulls) < k

\* Two targets were backported in turn and each has its pull request; the
\* source branch's ref carried the refs/heads/ prefix.
C20_Witness ==
    /\ tool.pc = "complete" /\ Len(pulls) = 2
    /\ tool.backportBranches = <<"release/2.0", "release/1.0">>
    /\ pull.head = "refs/heads/feature-y" /\ Len(pull.commits) >= 1
    /\ pulls[1].head = "auto-backport/release/2.0/feature-y"
    /\ pulls[2].title = "Backport #4242 to release/1.0"

\* The operations of the calls invocation i has issued, in order.
CallOps(i) == [j \in 1..Len(calls[i]) |-> calls[i][j].op]

\* C21: a Backport invocation with an empty commit list issues no
\* create-commit, merge, update-ref or delete-ref; it fails only when one of
\* its gateway calls fails; when none fails it has created the new branch at
\* the base branch's tip and returns the branch's name with no error, and the
\* branch, whenever it exists, points at the base tip.
C21_EmptyListAccepted ==
    \A i \in Invocations :
        frames[i].pc # "idle" /\ Len(req[i].commits) = 0 =>
            /\ \A j \in 1..Len(calls[i]) :
                calls[i][j].op \notin {"create-commit", "merge", "update-ref", "delete-ref"}
            /\ BranchExists(i) => BranchTip(i) = refs[RefName(req[i].baseBranchName)]
            /\ Len(objects) = PullParentSHA
            /\ Done(i) /\ frames[i].err # "" => ~LastCall(i).ok
            /\ Done(i) /\ (\A j \in 1..Len(calls[i]) : calls[i][j].ok) =>
                /\ frames[i].err = ""
                /\ frames[i].ret = NewBranchName(req[i].baseBranchName,
                                                 req[i].backportBranchName)
                /\ CallOps(i) = <<"get-branch", "create-ref", "get-branch", "get-commit">>
                /\ BranchExists(i)
                /\ BranchTip(i) = BaseTipSHA

\* Backport has returned the branch's name for an empty commit list, and the
\* branch points at the base tip.
C21_Witness ==
    \E i \in Invocations :
        /\ Succeeded(i) /\ req[i].commits = <<>>
        /\ frames[i].ret = "auto-backport/release/1.0/feature-x"
        /\ BranchExists(i) /\ BranchTip(i) = BaseTipSHA
        /\ Len(calls[i]) = 4

\* The value of the flag has an empty piece between its commas.
HasEmptyPiece(to) == \E k \in 1..Len(Split(to, ",")) : Split(to, ",")[k] = <<>>

\* C22: once the flags are parsed, a value of the flag with an empty name
\* between its commas has ended the run; every name of the target list is
\* non-empty; and no Backport is invoked with an empty base branch name.
C22_NoEmptyTarget ==
    /\ tool.pc # "parseFlags" /\ HasEmptyPiece(tool.to) =>
            tool.pc = "fatal" /\ tool.backportBranches = <<>>
    /\ \A k \in 1..Len(tool.backportBranches) : tool.backportBranches[k] # ""
    /\ \A i \in Invocations : frames[i].pc # "idle" => req[i].baseBranchName # ""

RECURSIVE ConcatPages(_, _, _)
\* The pages 1..no of the pull request, one after the other.
ConcatPages(p, size, no) ==
    IF no = 0 THEN <<>> ELSE ConcatPages(p, size, no - 1) \o HostPage(p, no, size)

NoDuplicates(seq) == \A a, b \in 1..Len(seq) : a # b => seq[a] # seq[b]

\* The page size the host serves the lister with.
ServedSize == HostPageSize(pull, ListRequest(lister.opts))

\* C9: unless a list call fails at the host, getPullRequestCommits returns the
\* concatenation of the pull request's pages in page order, without a
\* duplicate.
C9_PaginationResult ==
    lister.pc = "done" /\ lister.err # "list-commits" =>
        /\ lister.err = ""
        /\ lister.commitSHAs = ConcatPages(pull, ServedSize, NumPages(pull, ServedSize))
        /\ NoDuplicates(lister.commitSHAs)

\* C10: the k-th list call asks for page k, so that each page is requested
\* once and after each page its next page; the loop ends by itself, right
\* after the last page, and not by the caller's deadline.
C10_PaginationProgress ==
    /\ \A k \in 1..Len(lister.requests) : lister.requests[k] = k
    /\ lister.err # "context deadline exceeded"
    /\ lister.pc = "done" /\ lister.err = "" =>
            Len(lister.requests) = NumPages(pull, ServedSize)

====
